---------------------------- MODULE Spec2Model ----------------------------
(***************************************************************************)
(* A model of rename_and_symlink.py: the file-name normaliser, the         *)
(* identity resolution of process_file, the symlink provisioner            *)
(* make_symlink, the sidecar writer create_nfo_file, the reconciliation    *)
(* sweep cleanup_broken_symlinks and the pass main() that composes them.   *)
(*                                                                         *)
(* Strings are sequences of one-character strings, so that the regular     *)
(* expressions and the f-string formatting of the program are computed     *)
(* character by character.  A path is a sequence of names; the source root *)
(* SOURCE and the destination root DEST_BASE are two one-name paths of the *)
(* same file system.  An operator that stands for a local variable of the  *)
(* program takes the value as a parameter.                                 *)
(***************************************************************************)
EXTENDS Integers, Sequences, FiniteSets, TLC

(***************************************************************************)
(* Characters and character classes of Python's re module.                 *)
(***************************************************************************)
LowerSeq ==
    <<"a","b","c","d","e","f","g","h","i","j","k","l","m",
      "n","o","p","q","r","s","t","u","v","w","x","y","z">>

UpperSeq ==
    <<"A","B","C","D","E","F","G","H","I","J","K","L","M",
      "N","O","P","Q","R","S","T","U","V","W","X","Y","Z">>

LowerLetters == {LowerSeq[i] : i \in 1..Len(LowerSeq)}

UpperLetters == {UpperSeq[i] : i \in 1..Len(UpperSeq)}

\* str.lower() on one character
ToLower(c) ==
    IF c \in UpperLetters
    THEN LowerSeq[CHOOSE i \in 1..Len(UpperSeq) : UpperSeq[i] = c]
    ELSE c

DigitSeq == <<"0","1","2","3","4","5","6","7","8","9">>

DigitChars == {DigitSeq[i] : i \in 1..Len(DigitSeq)}

SpaceChars == {" "}

IsSpace(c) == c \in SpaceChars

IsDigit(c) == c \in DigitChars

\* \w of the re module
IsWord(c) == c \in LowerLetters \cup UpperLetters \cup DigitChars \cup {"_"}

\* the class [\w.-]
IsHostChar(c) == IsWord(c) \/ c \in {".", "-"}

\* c is the letter l (given in lower case) under re.IGNORECASE
IsLetterCI(c, l) == ToLower(c) = l

At(s, i) == IF i \in 1..Len(s) THEN s[i] ELSE ""

Least(S) == CHOOSE i \in S : \A j \in S : i <= j

Greatest(S) == CHOOSE i \in S : \A j \in S : j <= i

\* the first position at or after i that holds no white space (\s* is greedy)
RECURSIVE SkipSpace(_, _)
SkipSpace(s, i) ==
    IF i <= Len(s) /\ IsSpace(s[i]) THEN SkipSpace(s, i + 1) ELSE i

\* the first position at or after i that holds no character of [\w.-]
RECURSIVE HostRunEnd(_, _)
HostRunEnd(s, i) ==
    IF i <= Len(s) /\ IsHostChar(s[i]) THEN HostRunEnd(s, i + 1) ELSE i

\* str.strip()
RECURSIVE LStrip(_)
LStrip(s) == IF s # <<>> /\ IsSpace(Head(s)) THEN LStrip(Tail(s)) ELSE s

RECURSIVE RStrip(_)
RStrip(s) ==
    IF s # <<>> /\ IsSpace(s[Len(s)]) THEN RStrip(SubSeq(s, 1, Len(s) - 1)) ELSE s

Strip(s) == LStrip(RStrip(s))

(***************************************************************************)
(* clean_filename: re.sub of the anchored pattern                          *)
(*   ^(?:\[\s*www\.[\w.-]+\s*\]|\(\s*www\.[\w.-]+\s*\)|www\.[\w.-]+)\s*-\s* *)
(* by the empty string, then strip().  Every operator below returns the    *)
(* position that follows the matched text, or 0 when there is no match.    *)
(***************************************************************************)
\* "www." at position i, case-insensitively
IsWww(s, i) ==
    /\ IsLetterCI(At(s, i), "w") /\ IsLetterCI(At(s, i + 1), "w")
    /\ IsLetterCI(At(s, i + 2), "w") /\ At(s, i + 3) = "."

\* -\s* at position j
DashEnd(s, j) == IF At(s, j) = "-" THEN SkipSpace(s, j + 1) ELSE 0

\* \s*-\s* at position i
SeparatorEnd(s, i) == DashEnd(s, SkipSpace(s, i))

\* the separator after the longest host run that one follows: the greedy
\* [\w.-]+ gives characters back until \s*-\s* matches
LastSeparatorEnd(s, ends) ==
    IF ends = {} THEN 0 ELSE SeparatorEnd(s, Greatest(ends))

\* www\.[\w.-]+\s*-\s* at position 1
BareTagEnd(s) ==
    IF ~IsWww(s, 1) THEN 0
    ELSE LastSeparatorEnd(s, {e \in 6..HostRunEnd(s, 5) : SeparatorEnd(s, e) # 0})

\* <close>\s*-\s* at position m
WrappedCloseEnd(s, close, m) ==
    IF At(s, m) = close THEN SeparatorEnd(s, m + 1) ELSE 0

\* www\.[\w.-]+\s*<close>\s*-\s* at position j
WrappedHostEnd(s, close, j) ==
    IF IsWww(s, j) /\ HostRunEnd(s, j + 4) > j + 4
    THEN WrappedCloseEnd(s, close, SkipSpace(s, HostRunEnd(s, j + 4)))
    ELSE 0

\* <open>\s*www\.[\w.-]+\s*<close>\s*-\s* at position 1
WrappedTagEnd(s, open, close) ==
    IF At(s, 1) # open THEN 0 ELSE WrappedHostEnd(s, close, SkipSpace(s, 2))

\* the alternatives in the order the pattern lists them
FirstMatch(ends) ==
    IF \A i \in 1..Len(ends) : ends[i] = 0 THEN 0
    ELSE ends[Least({i \in 1..Len(ends) : ends[i] # 0})]

SiteTagEnd(s) ==
    FirstMatch(<<WrappedTagEnd(s, "[", "]"), WrappedTagEnd(s, "(", ")"), BareTagEnd(s)>>)

\* the string without the text matched up to position e
CutMatch(s, e) == IF e = 0 THEN s ELSE SubSeq(s, e, Len(s))

clean_filename(filename) == Strip(CutMatch(filename, SiteTagEnd(filename)))

(***************************************************************************)
(* The two re.sub calls that cut a show title out of a folder name.  Both  *)
(* patterns end in .*$, so the text from the leftmost match on is removed. *)
(***************************************************************************)
\* EP\([^)]+\) at position m
BatchRangeAt(s, m) ==
    /\ IsLetterCI(At(s, m), "e") /\ IsLetterCI(At(s, m + 1), "p")
    /\ At(s, m + 2) = "("
    /\ m + 3 <= Len(s) /\ s[m + 3] # ")"
    /\ \E q \in (m + 4)..Len(s) : s[q] = ")"

\* -\s*EP\([^)]+\) at position k
BatchDashAt(s, k) == At(s, k) = "-" /\ BatchRangeAt(s, SkipSpace(s, k + 1))

\* S\d{2}\s*-\s*EP\([^)]+\) at position j (re.IGNORECASE)
BatchSeasonAt(s, j) ==
    /\ IsLetterCI(At(s, j), "s")
    /\ IsDigit(At(s, j + 1)) /\ IsDigit(At(s, j + 2))
    /\ BatchDashAt(s, SkipSpace(s, j + 3))

\* \s*S\d{2}\s*-\s*EP\([^)]+\) matches at position i
BatchTagAt(s, i) == BatchSeasonAt(s, SkipSpace(s, i))

\* \(\d{4}\) at position j
YearParenAt(s, j) ==
    /\ At(s, j) = "("
    /\ \A d \in 1..4 : IsDigit(At(s, j + d))
    /\ At(s, j + 5) = ")"

\* \s*\(\d{4}\) matches at position i
YearTagAt(s, i) == YearParenAt(s, SkipSpace(s, i))

\* the string up to the leftmost of the positions where a match starts
CutFrom(s, starts) == IF starts = {} THEN s ELSE SubSeq(s, 1, Least(starts) - 1)

\* re.sub(r'\s*S\d{2}\s*-\s*EP\([^)]+\).*$', '', s, flags=re.IGNORECASE)
StripBatchTag(s) == CutFrom(s, {i \in 1..Len(s) : BatchTagAt(s, i)})

\* re.sub(r'\s*\(\d{4}\).*$', '', s)
StripYearTag(s) == CutFrom(s, {i \in 1..Len(s) : YearTagAt(s, i)})

\* the show title process_file derives from the parent folder's name
FolderTitle(folder_name) ==
    Strip(StripYearTag(StripBatchTag(clean_filename(folder_name))))

(***************************************************************************)
(* The fallback re.search(r'[Ss](\d{1,2})[Ee](\d{1,2})', filepath.name).   *)
(***************************************************************************)
DigitValue(c) == (CHOOSE n \in 1..Len(DigitSeq) : DigitSeq[n] = c) - 1

\* int() of a run of digits
RECURSIVE DecimalValue(_)
DecimalValue(ds) ==
    IF ds = <<>> THEN 0
    ELSE 10 * DecimalValue(SubSeq(ds, 1, Len(ds) - 1)) + DigitValue(ds[Len(ds)])

\* the number of season digits of a match at position i, 0 when none: two
\* digits are tried first, one digit on backtracking
SxxEyyAt(s, i) ==
    IF ~(At(s, i) \in {"S", "s"} /\ IsDigit(At(s, i + 1))) THEN 0
    ELSE IF IsDigit(At(s, i + 2)) /\ At(s, i + 3) \in {"E", "e"} /\ IsDigit(At(s, i + 4))
         THEN 2
    ELSE IF At(s, i + 2) \in {"E", "e"} /\ IsDigit(At(s, i + 3)) THEN 1
    ELSE 0

\* the groups of the match whose season digits are s[i+1..e-2] and whose
\* episode digits start at e
SxxEyyGroups(s, i, e) ==
    << DecimalValue(SubSeq(s, i + 1, e - 2)),
       DecimalValue(SubSeq(s, e, IF IsDigit(At(s, e + 1)) THEN e + 1 ELSE e)) >>

SxxEyyFrom(s, i) == SxxEyyGroups(s, i, i + SxxEyyAt(s, i) + 2)

SxxEyyAmong(s, starts) == IF starts = {} THEN <<>> ELSE SxxEyyFrom(s, Least(starts))

\* <<>> when the name has no SxxEyy, else <<season, episode>>
SxxEyy(name) == SxxEyyAmong(name, {i \in 1..Len(name) : SxxEyyAt(name, i) # 0})

(***************************************************************************)
(* pathlib: the suffix and the stem of a name; f-string number formats.    *)
(***************************************************************************)
Dots(name) == {i \in 1..Len(name) : name[i] = "."}

\* str.rfind('.') + 1, 0 when the name has no dot
LastDot(name) == IF Dots(name) = {} THEN 0 ELSE Greatest(Dots(name))

\* a leading or a trailing dot starts no suffix
HasSuffix(name) == 1 < LastDot(name) /\ LastDot(name) < Len(name)

\* PurePath.suffix
Suffix(name) ==
    IF HasSuffix(name) THEN SubSeq(name, LastDot(name), Len(name)) ELSE <<>>

\* PurePath.stem
Stem(name) == IF HasSuffix(name) THEN SubSeq(name, 1, LastDot(name) - 1) ELSE name

\* str.lower()
LowerStr(s) == [i \in 1..Len(s) |-> ToLower(s[i])]

\* str(n) of a natural number
RECURSIVE Decimal(_)
Decimal(n) ==
    IF n < 10 THEN <<DigitSeq[n + 1]>>
    ELSE Decimal(n \div 10) \o <<DigitSeq[(n % 10) + 1]>>

\* f"{n:02}"
Pad2(n) == IF n < 10 THEN <<"0">> \o Decimal(n) ELSE Decimal(n)

\* an episode part that names the first episode only
EpisodeStr_first_only(episode_list) ==
    IF episode_list = <<>> THEN <<>> ELSE <<"E">> \o Pad2(episode_list[1])

\* '-'.join(f"E{e:02}" for e in episode_list)
RECURSIVE EpisodeStr(_)
EpisodeStr(episode_list) ==
    IF episode_list = <<>> THEN <<>>
    ELSE IF Len(episode_list) = 1 THEN <<"E">> \o Pad2(episode_list[1])
    ELSE <<"E">> \o Pad2(episode_list[1]) \o <<"-">> \o EpisodeStr(Tail(episode_list))

(***************************************************************************)
(* The file system.  fs maps every existing path to its entry; a path is a *)
(* sequence of names and an entry is a directory, a regular file with its  *)
(* data, or a symlink with the absolute path it stores.  No directory on   *)
(* the way to a path the program addresses is itself a symlink.            *)
(***************************************************************************)
VARIABLES
    fs,            \* the file system: source tree and destination tree
    guess,         \* guessit: what the external parser answers for a cleaned name
    today,         \* datetime.now().strftime('%Y-%m-%d')
    pc,            \* where the __main__ loop stands
    queue,         \* the source files os.walk(SOURCE) has still to yield
    main_full_path,  \* the source file main() handed to process_file last
    cleaned_name,  \* clean_filename(filepath.name) of the last media file
    calls,         \* the calls of make_symlink the last process_file made
    log,           \* the lines log() printed since main() was entered
    passes,        \* the number of passes main() has completed
    ends           \* the file system as each completed pass left it

vars == <<fs, guess, today, pc, queue, main_full_path, cleaned_name, calls, log, passes, ends>>

SOURCE == << <<"s","r","c">> >>

DEST_BASE == << <<"l","i","b">> >>

MEDIA_EXTENSIONS ==
    { <<".","m","k","v">>, <<".","m","p","4">>, <<".","a","v","i">>, <<".","m","o","v">>, <<".","f","l","v">>,
      <<".","w","m","v">>, <<".","m","p","3">>, <<".","a","a","c">>, <<".","f","l","a","c">>, <<".","w","a","v">> }

\* the subtitle extensions, in the order the set is iterated
SUBTITLE_EXTENSIONS == << <<".","s","r","t">>, <<".","s","u","b">>, <<".","a","s","s">>, <<".","s","s","a">>, <<".","v","t","t">> >>

DirEntry == [kind |-> "dir", target |-> <<>>, data |-> <<>>]

FileEntry(d) == [kind |-> "file", target |-> <<>>, data |-> d]

LinkEntry(t) == [kind |-> "link", target |-> t, data |-> <<>>]

Parent(p) == SubSeq(p, 1, Len(p) - 1)

Name(p) == p[Len(p)]

Prefixes(p) == {SubSeq(p, 1, k) : k \in 1..Len(p)}

IsUnder(p, d) == Len(p) > Len(d) /\ SubSeq(p, 1, Len(d)) = d

Children(f, d) == {p \in DOMAIN f : Len(p) = Len(d) + 1 /\ Parent(p) = d}

\* Path.is_symlink()
IsSymlink(f, p) == p \in DOMAIN f /\ f[p].kind = "link"

\* Path.resolve(strict=False): the path the chain of links from p leads to
RECURSIVE ResolveN(_, _, _)
ResolveN(f, p, n) ==
    IF p \in DOMAIN f /\ f[p].kind = "link" /\ n > 0
    THEN ResolveN(f, f[p].target, n - 1)
    ELSE p

Resolve(f, p) == ResolveN(f, p, Cardinality(DOMAIN f))

KindAt(f, r) == IF r \in DOMAIN f THEN f[r].kind ELSE "absent"

\* Path.exists(): follows links; a dangling link does not exist
Exists(f, p) == KindAt(f, Resolve(f, p)) \in {"dir", "file"}

\* Path.is_dir()
IsDir(f, p) == KindAt(f, Resolve(f, p)) = "dir"

\* Path.is_file()
IsFile(f, p) == KindAt(f, Resolve(f, p)) = "file"

Remove(f, p) == [q \in DOMAIN f \ {p} |-> f[q]]

Put(f, p, e) == [q \in DOMAIN f \cup {p} |-> IF q = p THEN e ELSE f[q]]

(***************************************************************************)
(* A run of the program is threaded through a record st: the file system,  *)
(* the log, ok, which is FALSE once an exception has escaped, and the      *)
(* calls of make_symlink made so far.                                      *)
(***************************************************************************)
Running(f, l) == [fs |-> f, log |-> l, ok |-> TRUE, calls |-> <<>>]

Logged(st, message, p) == [st EXCEPT !.log = Append(@, <<message, p>>)]

Raised(st) == [st EXCEPT !.ok = FALSE]

\* os.makedirs(d, exist_ok=True): raises when a name on the way is taken by
\* something that is not a directory
makedirs(st, d) ==
    IF \E q \in Prefixes(d) : q \in DOMAIN st.fs /\ ~IsDir(st.fs, q)
    THEN Raised(st)
    ELSE [st EXCEPT !.fs = [q \in DOMAIN st.fs \cup Prefixes(d) |->
                               IF q \in DOMAIN st.fs THEN st.fs[q] ELSE DirEntry]]

\* the try block of make_symlink: symlink_to fails when the name is taken
symlink_to(st, target_path, source_file) ==
    IF target_path \in DOMAIN st.fs \/ ~IsDir(st.fs, Parent(target_path))
    THEN Logged(st, "[ERROR] Could not create symlink", target_path)
    ELSE Logged([st EXCEPT !.fs = Put(@, target_path, LinkEntry(source_file))],
                "[LINK]", target_path)

\* make_symlink once os.makedirs(target_path.parent) has run
link_in(made, source_file, target_path) ==
    IF made.ok THEN symlink_to(made, target_path, source_file) ELSE made

\* make_symlink from os.makedirs on
create_link(st, source_file, target_path) ==
    link_in(makedirs(st, Parent(target_path)), source_file, target_path)

\* the stale branch of make_symlink: warn and unlink
unlink_stale(st, target_path) ==
    [Logged(st, "[WARN] Updating stale symlink", target_path)
        EXCEPT !.fs = Remove(@, target_path)]

\* a make_symlink that takes whatever it finds at target_path for a stale link
make_symlink_over_anything(st, source_file, target_path) ==
    IF Exists(st.fs, target_path)
    THEN IF Resolve(st.fs, target_path) = Resolve(st.fs, source_file)
         THEN Logged(st, "[SKIP] Symlink already exists", target_path)
         ELSE create_link(unlink_stale(st, target_path), source_file, target_path)
    ELSE create_link(st, source_file, target_path)

\* a make_symlink that replaces every symlink it finds, the right one too
make_symlink_always_relink(st, source_file, target_path) ==
    IF Exists(st.fs, target_path)
    THEN IF IsSymlink(st.fs, target_path)
         THEN create_link(unlink_stale(st, target_path), source_file, target_path)
         ELSE Logged(st, "[WARN] Not a symlink, skipping", target_path)
    ELSE create_link(st, source_file, target_path)

make_symlink(st, source_file, target_path) ==
    IF Exists(st.fs, target_path)
    THEN IF IsSymlink(st.fs, target_path)
         THEN IF Resolve(st.fs, target_path) = Resolve(st.fs, source_file)
              THEN Logged(st, "[SKIP] Symlink already exists", target_path)
              ELSE create_link(unlink_stale(st, target_path), source_file, target_path)
         ELSE Logged(st, "[WARN] Not a symlink, skipping", target_path)
    ELSE create_link(st, source_file, target_path)

\* the lines a step added to the log
Said(st, done) ==
    [i \in 1..(Len(done.log) - Len(st.log)) |-> done.log[Len(st.log) + i][1]]

\* one call of make_symlink, with the file system it found and the one it left
Called(st, source_file, target_path, done) ==
    [done EXCEPT !.calls = Append(@, [source_file |-> source_file,
                                      target_path |-> target_path,
                                      before |-> st.fs, after |-> done.fs,
                                      said |-> Said(st, done), ok |-> done.ok])]

call_make_symlink(st, source_file, target_path) ==
    Called(st, source_file, target_path, make_symlink(st, source_file, target_path))

(***************************************************************************)
(* create_nfo_file.  A sidecar's data is the sequence of its XML elements, *)
(* each a pair <<tag, text>>.                                              *)
(***************************************************************************)
NfoSuffix == <<".","n","f","o">>

\* f"{year}" of an optional year: <<>> (absent, rendered empty) or <<n>>
YearStr(year) == IF year = <<>> THEN <<>> ELSE Decimal(year[1])

\* release_date if release_date else f"{year}-01-01"
DateToUse(year, release_date) ==
    IF release_date # <<>> THEN release_date ELSE YearStr(year) \o <<"-","0","1","-","0","1">>

\* the date elements of a sidecar: none when neither date nor year is there
DateElements(tags, year, release_date) ==
    IF release_date # <<>> \/ year # <<>>
    THEN [i \in 1..Len(tags) |-> <<tags[i], DateToUse(year, release_date)>>]
    ELSE <<>>

\* open(r, 'w') and write, inside its try block; r is where nfo_path leads
write_to(st, nfo_path, r, data, message) ==
    IF (r \in DOMAIN st.fs /\ st.fs[r].kind = "file")
       \/ (r \notin DOMAIN st.fs /\ IsDir(st.fs, Parent(r)))
    THEN Logged([st EXCEPT !.fs = Put(@, r, FileEntry(data))], message, nfo_path)
    ELSE Logged(st, "[ERROR] Could not create NFO file", nfo_path)

write_nfo(st, nfo_path, data, message) ==
    write_to(st, nfo_path, Resolve(st.fs, nfo_path), data, message)

EpisodeNfoName(title, season, episode) ==
    title \o <<" ","-"," ","S">> \o Pad2(season) \o <<"E">> \o Pad2(episode) \o NfoSuffix

EpisodeNfoData(title, year, season, episode, release_date) ==
    << <<"episodedetails", <<>>>>, <<"title", title>>,
       <<"season", Decimal(season)>>, <<"episode", Decimal(episode)>> >>
    \o DateElements(<<"aired">>, year, release_date)

MovieNfoName(title, year) == title \o <<" ","(">> \o YearStr(year) \o <<")">> \o NfoSuffix

MovieNfoData(title, year, release_date) ==
    << <<"movie", <<>>>>, <<"title", title>> >>
    \o (IF year # <<>> THEN << <<"year", YearStr(year)>> >> ELSE <<>>)
    \o DateElements(<<"premiered", "releasedate">>, year, release_date)

\* the loop over episode_list of create_nfo_file
RECURSIVE write_episode_nfos(_, _, _, _, _, _, _)
write_episode_nfos(st, target_folder, title, year, season, episodes, release_date) ==
    IF episodes = <<>> THEN st
    ELSE write_episode_nfos(
             write_nfo(st,
                       Append(target_folder, EpisodeNfoName(title, season, Head(episodes))),
                       EpisodeNfoData(title, year, season, Head(episodes), release_date),
                       "[NFO] Created episode NFO"),
             target_folder, title, year, season, Tail(episodes), release_date)

\* create_nfo_file once os.makedirs(target_folder) has run; season is <<>>
\* (None) or <<n>>, episode_list is <<>> (None) or <<list>>
write_sidecars(made, target_folder, title, year, season, episode_list, release_date) ==
    IF ~made.ok THEN made
    ELSE IF season # <<>> /\ episode_list # <<>>
    THEN write_episode_nfos(made, target_folder, title, year, season[1],
                            episode_list[1], release_date)
    ELSE write_nfo(made, Append(target_folder, MovieNfoName(title, year)),
                   MovieNfoData(title, year, release_date),
                   "[NFO] Created movie NFO")

create_nfo_file(st, target_folder, title, year, season, episode_list, release_date) ==
    write_sidecars(makedirs(st, target_folder), target_folder, title, year,
                   season, episode_list, release_date)

(***************************************************************************)
(* The answer of guessit, the external parser.  A field of the dictionary  *)
(* that may hold a number or a list is a Python value: None, an int or a   *)
(* list of ints.  title and date are strings, <<>> when absent; year is    *)
(* <<>> when absent, else <<n>>.                                           *)
(***************************************************************************)
PyNone == [k |-> "none", v |-> <<>>]

PyInt(n) == [k |-> "int", v |-> <<n>>]

PyList(l) == [k |-> "list", v |-> l]

\* bool(x)
Truthy(x) == (x.k = "int" /\ x.v[1] # 0) \/ (x.k = "list" /\ x.v # <<>>)

\* extract_release_date: the guessed date, else the current date
extract_release_date(info, now) == IF info.date # <<>> THEN info.date ELSE now

(***************************************************************************)
(* The decisions of process_file, before it touches the file system.  The  *)
(* outcome of a rejected file is the line process_file logs for it.        *)
(***************************************************************************)
Rejected(reason) ==
    [outcome |-> reason, title |-> <<>>, year |-> <<>>, season |-> <<>>,
     episode_list |-> <<>>, target_folder |-> <<>>, target_name |-> <<>>,
     subtitle_base |-> <<>>]

\* the movie branch once title, year and f"{title} ({year})" are known
MovieLocation(filepath, title, year, base) ==
    [outcome |-> "movie", title |-> title, year |-> year,
     season |-> <<>>, episode_list |-> <<>>,
     target_folder |-> DEST_BASE \o <<<<"m","o","v","i","e","s">>, base>>,
     target_name |-> base \o Suffix(Name(filepath)),
     subtitle_base |-> base]

MovieIdentity(filepath, info) ==
    IF info.title = <<>> THEN Rejected("[SKIP] No title found")
    ELSE MovieLocation(filepath, info.title, info.year,
                       info.title \o <<" ","(">> \o YearStr(info.year) \o <<")">>)

\* season = season[0] when guessit answers a list
FirstSeason(season) == IF season.k = "list" THEN PyInt(season.v[1]) ELSE season

\* the episode list of a list, an int or anything else
EpisodeList(episode) == IF episode.k \in {"list", "int"} THEN episode.v ELSE <<>>

\* the episode branch once title, season, episodes and the base name
\* f"{title} - S{season:02}{episode_str}" are known
EpisodeLocation(filepath, info, title, s, episode_list, base) ==
    [outcome |-> "episode", title |-> title, year |-> info.year,
     season |-> <<s>>, episode_list |-> <<episode_list>>,
     target_folder |-> DEST_BASE \o <<<<"t","v","s","h","o","w","s">>, title, <<"S","e","a","s","o","n"," ">> \o Pad2(s)>>,
     target_name |-> base \o Suffix(Name(filepath)),
     subtitle_base |-> base]

\* title, season and episode_list as the completeness test finds them
Facts(title, season, episode_list) ==
    [title |-> title, season |-> season, episode_list |-> episode_list]

\* the regex fallback, given what re.search found in the file name
WithMatch(title, season, episode_list, match) ==
    IF match # <<>> THEN Facts(title, PyInt(match[1]), <<match[2]>>)
    ELSE Facts(title, season, episode_list)

\* the fallback, once title, season and episode list are normalised
Fallback(filepath, title, season, episode_list) ==
    IF ~(Truthy(season) /\ episode_list # <<>>)
    THEN WithMatch(title, season, episode_list, SxxEyy(Name(filepath)))
    ELSE Facts(title, season, episode_list)

\* the episode branch up to the completeness test
AfterFallback(filepath, info) ==
    Fallback(filepath, FolderTitle(Name(Parent(filepath))),
             FirstSeason(info.season), EpisodeList(info.episode))

\* the completeness test and what follows it
EpisodeChecked(filepath, info, facts) ==
    IF ~(facts.title # <<>> /\ Truthy(facts.season) /\ facts.episode_list # <<>>)
    THEN Rejected("[SKIP] Incomplete episode info")
    ELSE EpisodeLocation(filepath, info, facts.title, facts.season.v[1],
             facts.episode_list,
             facts.title \o <<" ","-"," ","S">> \o Pad2(facts.season.v[1])
                 \o EpisodeStr(facts.episode_list))

EpisodeIdentity(filepath, info) ==
    EpisodeChecked(filepath, info, AfterFallback(filepath, info))

IsMedia(p) == LowerStr(Suffix(Name(p))) \in MEDIA_EXTENSIONS

\* a branch selection that looks at the place of the file before the type movie
Identity_place_first(filepath, info) ==
    IF ~IsMedia(filepath) THEN Rejected("[SKIP] Unsupported file type")
    ELSE IF info.type = "episode" \/ Parent(filepath) # SOURCE
    THEN EpisodeIdentity(filepath, info)
    ELSE IF info.type = "movie" THEN MovieIdentity(filepath, info)
    ELSE Rejected("[SKIP] Unknown media type")

Identity(filepath, info) ==
    IF ~IsMedia(filepath) THEN Rejected("[SKIP] Unsupported file type")
    ELSE IF info.type = "movie" THEN MovieIdentity(filepath, info)
    ELSE IF info.type = "episode" \/ Parent(filepath) # SOURCE
    THEN EpisodeIdentity(filepath, info)
    ELSE Rejected("[SKIP] Unknown media type")

(***************************************************************************)
(* find_matching_subtitles and the names of the subtitle links.            *)
(***************************************************************************)
\* a set as a sequence: the order in which a directory lists its entries
RECURSIVE SetToSeq(_)
ListedFirst(S, x) == <<x>> \o SetToSeq(S \ {x})

SetToSeq(S) == IF S = {} THEN <<>> ELSE ListedFirst(S, CHOOSE y \in S : TRUE)

ListDir(f, d) == SetToSeq(Children(f, d))

\* fnmatch of a name against f"{stem}.*{ext}"
GlobMatches(name, stem, ext) ==
    /\ Len(name) >= Len(stem) + 1 + Len(ext)
    /\ SubSeq(name, 1, Len(stem) + 1) = stem \o <<".">>
    /\ SubSeq(name, Len(name) - Len(ext) + 1, Len(name)) = ext

\* the paths of found that subtitles does not hold yet, appended to it
RECURSIVE AppendNew(_, _)
AppendNew(subtitles, found) ==
    IF found = <<>> THEN subtitles
    ELSE AppendNew(IF \E i \in 1..Len(subtitles) : subtitles[i] = Head(found)
                   THEN subtitles ELSE Append(subtitles, Head(found)),
                   Tail(found))

\* the direct match of one extension, when it exists
DirectMatch(f, direct_match) ==
    IF Exists(f, direct_match) THEN <<direct_match>> ELSE <<>>

\* parent_dir.glob(f"{media_stem}.*{sub_ext}")
Globbed(f, parent_dir, media_stem, sub_ext) ==
    SelectSeq(ListDir(f, parent_dir), LAMBDA p : GlobMatches(Name(p), media_stem, sub_ext))

\* the loop over SUBTITLE_EXTENSIONS
RECURSIVE find_subtitles_from(_, _, _, _)
find_subtitles_from(f, media_file, exts, subtitles) ==
    IF exts = <<>> THEN subtitles
    ELSE find_subtitles_from(f, media_file, Tail(exts),
             AppendNew(subtitles
                         \o DirectMatch(f, Append(Parent(media_file),
                                                  Stem(Name(media_file)) \o Head(exts))),
                       Globbed(f, Parent(media_file), Stem(Name(media_file)), Head(exts))))

find_matching_subtitles(f, media_file) ==
    find_subtitles_from(f, media_file, SUBTITLE_EXTENSIONS, <<>>)

\* s.replace(old, '')
RECURSIVE RemoveAll(_, _)
RemoveAll(s, old) ==
    IF old = <<>> \/ Len(s) < Len(old) THEN s
    ELSE IF SubSeq(s, 1, Len(old)) = old
    THEN RemoveAll(SubSeq(s, Len(old) + 1, Len(s)), old)
    ELSE <<Head(s)>> \o RemoveAll(Tail(s), old)

\* s.lstrip('.')
RECURSIVE LStripDots(_)
LStripDots(s) == IF s # <<>> /\ Head(s) = "." THEN LStripDots(Tail(s)) ELSE s

SubtitleTargetName(sub_file, media_file, subtitle_base) ==
    IF Stem(Name(sub_file)) = Stem(Name(media_file))
    THEN subtitle_base \o Suffix(Name(sub_file))
    ELSE subtitle_base \o <<".">>
         \o LStripDots(RemoveAll(Stem(Name(sub_file)), Stem(Name(media_file))))
         \o Suffix(Name(sub_file))

\* the loop over the subtitles at the end of process_file
RECURSIVE link_subtitles(_, _, _, _, _)
link_subtitles(st, subtitles, media_file, target_folder, subtitle_base) ==
    IF subtitles = <<>> \/ ~st.ok THEN st
    ELSE link_subtitles(
             call_make_symlink(st, Head(subtitles),
                               Append(target_folder,
                                      SubtitleTargetName(Head(subtitles), media_file,
                                                         subtitle_base))),
             Tail(subtitles), media_file, target_folder, subtitle_base)

\* process_file after make_symlink on the media file
after_link(linked, filepath, id) ==
    IF ~linked.ok THEN linked
    ELSE link_subtitles(linked, find_matching_subtitles(linked.fs, filepath),
                        filepath, id.target_folder, id.subtitle_base)

\* process_file after create_nfo_file
after_nfo(written, filepath, id) ==
    IF ~written.ok THEN written
    ELSE after_link(call_make_symlink(written, filepath,
                                      Append(id.target_folder, id.target_name)),
                    filepath, id)

\* a process_file that makes the destination root before it rejects a file
provision_root_first(st, filepath, id, release_date) ==
    IF id.outcome \notin {"movie", "episode"}
    THEN Logged(makedirs(st, DEST_BASE), id.outcome, filepath)
    ELSE after_nfo(create_nfo_file(st, id.target_folder, id.title, id.year,
                                   id.season, id.episode_list, release_date),
                   filepath, id)

\* process_file once the identity of the file is decided
provision(st, filepath, id, release_date) ==
    IF id.outcome \notin {"movie", "episode"} THEN Logged(st, id.outcome, filepath)
    ELSE after_nfo(create_nfo_file(st, id.target_folder, id.title, id.year,
                                   id.season, id.episode_list, release_date),
                   filepath, id)

process_file(st, filepath, info, now) ==
    provision(st, filepath, Identity(filepath, info), extract_release_date(info, now))

(***************************************************************************)
(* cleanup_broken_symlinks: os.walk top-down over the files, then          *)
(* bottom-up over the directories.  os.walk does not descend into a        *)
(* symlink, and lists a symlink to a directory among the directories.      *)
(***************************************************************************)
SubDirs(f, d) == {c \in Children(f, d) : f[c].kind = "dir"}

\* the directories os.walk(top) yields, parents first
RECURSIVE WalkTopDown(_, _)
RECURSIVE WalkAllTopDown(_, _)

WalkTopDown(f, top) ==
    IF top \in DOMAIN f /\ IsDir(f, top)
    THEN <<top>> \o WalkAllTopDown(f, SetToSeq(SubDirs(f, top)))
    ELSE <<>>

WalkAllTopDown(f, dirs) ==
    IF dirs = <<>> THEN <<>>
    ELSE WalkTopDown(f, Head(dirs)) \o WalkAllTopDown(f, Tail(dirs))

\* the directories os.walk(top, topdown=False) yields, children first
RECURSIVE WalkBottomUp(_, _)
RECURSIVE WalkAllBottomUp(_, _)

WalkBottomUp(f, top) ==
    IF top \in DOMAIN f /\ IsDir(f, top)
    THEN WalkAllBottomUp(f, SetToSeq(SubDirs(f, top))) \o <<top>>
    ELSE <<>>

WalkAllBottomUp(f, dirs) ==
    IF dirs = <<>> THEN <<>>
    ELSE WalkBottomUp(f, Head(dirs)) \o WalkAllBottomUp(f, Tail(dirs))

\* the `files` of one directory: its entries that are no directory
FilesOf(f, d) == SelectSeq(ListDir(f, d), LAMBDA p : ~IsDir(f, p))

\* every file of the tree under top, in the order os.walk yields them
RECURSIVE FilesOfAll(_, _)
FilesOfAll(f, dirs) ==
    IF dirs = <<>> THEN <<>> ELSE FilesOf(f, Head(dirs)) \o FilesOfAll(f, Tail(dirs))

WalkFiles(f, top) == FilesOfAll(f, WalkTopDown(f, top))

\* a first loop that removes every symlink it meets
check_symlink_remove_all(st, full_path) ==
    IF IsSymlink(st.fs, full_path)
    THEN [Logged(st, "[CLEAN] Removing broken symlink", full_path)
             EXCEPT !.fs = Remove(@, full_path)]
    ELSE st

\* a first loop that does not ask whether the file is a symlink
check_symlink_any_file(st, full_path) ==
    IF IsSymlink(st.fs, full_path) /\ Exists(st.fs, full_path)
    THEN Logged(st, "[OK] Symlink valid", full_path)
    ELSE [Logged(st, "[CLEAN] Removing broken symlink", full_path)
             EXCEPT !.fs = Remove(@, full_path)]

\* the body of the first loop for one file
check_symlink(st, full_path) ==
    IF IsSymlink(st.fs, full_path)
    THEN IF ~Exists(st.fs, full_path)
         THEN [Logged(st, "[CLEAN] Removing broken symlink", full_path)
                  EXCEPT !.fs = Remove(@, full_path)]
         ELSE Logged(st, "[OK] Symlink valid", full_path)
    ELSE st

RECURSIVE remove_broken_symlinks(_, _)
remove_broken_symlinks(st, files) ==
    IF files = <<>> THEN st
    ELSE remove_broken_symlinks(check_symlink(st, Head(files)), Tail(files))

\* the body of the second loop for one directory
remove_if_empty(st, dir_path) ==
    IF Children(st.fs, dir_path) = {}
    THEN Logged([st EXCEPT !.fs = Remove(@, dir_path)],
                "[CLEAN] Removed empty directory", dir_path)
    ELSE st

RECURSIVE remove_empty_dirs(_, _)
remove_empty_dirs(st, dirs) ==
    IF dirs = <<>> THEN st
    ELSE remove_empty_dirs(remove_if_empty(st, Head(dirs)), Tail(dirs))

\* a second loop that takes the directories parents first
prune_top_down(swept, path) == remove_empty_dirs(swept, WalkTopDown(swept.fs, path))

\* the directories of a walk but the last, the top of the walk
AllButTop(dirs) == SubSeq(dirs, 1, Len(dirs) - 1)

\* a second loop that spares the directory it was started on
prune_below_top(swept, path) ==
    remove_empty_dirs(swept, AllButTop(WalkBottomUp(swept.fs, path)))

\* the second loop, over the tree the first loop left
prune(swept, path) == remove_empty_dirs(swept, WalkBottomUp(swept.fs, path))

\* the first loop, after the opening log line
sweep(started, path) == remove_broken_symlinks(started, WalkFiles(started.fs, path))

cleanup_broken_symlinks(st, path) ==
    prune(sweep(Logged(st, "[INFO] Cleaning broken symlinks in", path), path), path)

(***************************************************************************)
(* main() and the loop around it.                                          *)
(***************************************************************************)
MaxPasses == 2

\* the dates the clock shows, in order
Days == << <<"2","0","2","4","-","1","2","-","3","1">>, <<"2","0","2","5","-","0","1","-","0","1">> >>

LaterDays(d) == {Days[j] : j \in {i \in 1..Len(Days) : \E k \in 1..i : Days[k] = d}}

\* main() has swept the destination and starts os.walk(SOURCE)
Swept(st) ==
    /\ fs' = st.fs
    /\ log' = st.log
    /\ queue' = WalkFiles(st.fs, SOURCE)

\* main() up to its loop: the sweep of the destination, then os.walk(SOURCE)
Cleanup ==
    /\ pc = "main"
    /\ Swept(cleanup_broken_symlinks(
                 Running(fs, << <<"[INFO] Scanning for files in", SOURCE>> >>),
                 DEST_BASE))
    /\ pc' = "walk"
    /\ main_full_path' = <<>>
    /\ calls' = <<>>
    /\ UNCHANGED <<guess, today, cleaned_name, passes, ends>>

\* guessit(cleaned_name); a file that is no media file is never parsed
NoGuess ==
    [type |-> "", title |-> <<>>, year |-> <<>>, season |-> PyNone,
     episode |-> PyNone, date |-> <<>>]

GuessFor(filepath) ==
    IF IsMedia(filepath) THEN guess[clean_filename(Name(filepath))] ELSE NoGuess

\* a loop body that sweeps the destination again after each file
visit_then_sweep(st, filepath) ==
    IF IsFile(st.fs, filepath)
    THEN cleanup_broken_symlinks(process_file(st, filepath, GuessFor(filepath), today),
                                 DEST_BASE)
    ELSE st

\* the body of main()'s loop
visit(st, filepath) ==
    IF IsFile(st.fs, filepath)
    THEN process_file(st, filepath, GuessFor(filepath), today)
    ELSE st

\* the loop of main() has handled one file
Visited(st) ==
    /\ fs' = st.fs
    /\ log' = st.log
    /\ calls' = st.calls
    /\ pc' = IF st.ok THEN "walk" ELSE "crashed"

\* one turn of main()'s loop: process_file on the next source file; an
\* exception that escapes it ends the program
ProcessNext ==
    /\ pc = "walk"
    /\ queue # <<>>
    /\ Visited(visit(Running(fs, log), Head(queue)))
    /\ main_full_path' = Head(queue)
    /\ cleaned_name' = IF IsFile(fs, Head(queue)) /\ IsMedia(Head(queue))
                       THEN clean_filename(Name(Head(queue))) ELSE cleaned_name
    /\ queue' = Tail(queue)
    /\ UNCHANGED <<guess, today, passes, ends>>

\* the end of main()
Finish ==
    /\ pc = "walk"
    /\ queue = <<>>
    /\ log' = Append(log, <<"[DONE] Script completed", <<>>>>)
    /\ pc' = "sleep"
    /\ passes' = passes + 1
    /\ ends' = Append(ends, fs)
    /\ UNCHANGED <<fs, guess, today, queue, main_full_path, cleaned_name, calls>>

\* time.sleep(POLL_INTERVAL), after which the loop calls main() again
Sleep ==
    /\ pc = "sleep"
    /\ passes < MaxPasses
    /\ \E d \in LaterDays(today) : today' = d
    /\ log' = Append(log, <<"[INFO] Sleeping", <<>>>>)
    /\ pc' = "main"
    /\ UNCHANGED <<fs, guess, queue, main_full_path, cleaned_name, calls, passes, ends>>

Next == Cleanup \/ ProcessNext \/ Finish \/ Sleep

(***************************************************************************)
(* The inputs: the source files, the answers of guessit and the            *)
(* destination tree that earlier runs and the user left behind.            *)
(***************************************************************************)
MaxFiles == 2

MaxSeeds == 2

Info(type, title, year, season, episode, date) ==
    [type |-> type, title |-> title, year |-> year, season |-> season,
     episode |-> episode, date |-> date]

GuessedDate == <<"2","0","2","0","-","0","5","-","1","7">>

\* the sets of at most k elements of S
RECURSIVE SubsetsUpTo(_, _)
Grown(smaller, S) == smaller \cup {T \cup {x} : T \in smaller, x \in S}

SubsetsUpTo(S, k) == IF k = 0 THEN {{}} ELSE Grown(SubsetsUpTo(S, k - 1), S)

\* the source files a run may find: a movie, the same movie under a site
\* tag, an episode in a show folder, and two subtitles of the movie
FileA == SOURCE \o << <<"A",".","m","k","v">> >>

FileTagA == SOURCE \o << <<"w","w","w",".","x"," ","-"," ","A",".","m","k","v">> >>

FileEp == SOURCE \o << <<"S","h"," ","(","2","0","2","0",")">>, <<"e"," ","S","0","1","E","0","2",".","m","k","v">> >>

SubLangA == SOURCE \o << <<"A",".","e","n",".","s","r","t">> >>

SubA == SOURCE \o << <<"A",".","s","r","t">> >>

Catalogue == {FileA, FileTagA, FileEp, SubLangA, SubA}

Guesses ==
    { Info("movie", <<"A">>, <<2020>>, PyNone, PyNone, <<>>),
      Info("movie", <<>>, <<2020>>, PyNone, PyNone, <<>>),
      Info("episode", <<"e">>, <<>>, PyInt(1), PyInt(2), GuessedDate),
      Info("other", <<"A">>, <<>>, PyNone, PyNone, <<>>) }

\* the paths a seeded link may store: a source file, a path that does not
\* exist, a directory of the destination tree
GonePath == SOURCE \o << <<"g","o","n","e",".","m","k","v">> >>

KeepDir == DEST_BASE \o << <<"k","e","e","p">> >>

OldLink == DEST_BASE \o << <<"o","l","d">>, <<"x",".","m","k","v">> >>

Seed(p, e) == [path |-> p, entry |-> e]

LinkSeeds(p, files) ==
    {Seed(p, LinkEntry(t)) : t \in files \cup {GonePath, KeepDir}}

NfoPaths(id) ==
    IF id.outcome = "movie"
    THEN {Append(id.target_folder, MovieNfoName(id.title, id.year))}
    ELSE {Append(id.target_folder,
                 EpisodeNfoName(id.title, id.season[1], id.episode_list[1][i]))
            : i \in 1..Len(id.episode_list[1])}

BlockersAt(p) == {Seed(p, FileEntry(<<>>)), Seed(p, DirEntry)}

\* a directory at p that holds a file
OccupiedAt(p) == {Seed(Append(p, <<"f">>), FileEntry(<<>>))}

\* what may lie in the way of one accepted source file
SeedsFor(id, files) ==
    BlockersAt(Append(id.target_folder, id.target_name))
    \cup BlockersAt(id.target_folder)
    \cup OccupiedAt(Append(id.target_folder, id.target_name))
    \cup LinkSeeds(Append(id.target_folder, id.target_name), files)
    \cup UNION {BlockersAt(n) : n \in NfoPaths(id)}

SeedsIfAccepted(id, files) ==
    IF id.outcome \in {"movie", "episode"} THEN SeedsFor(id, files) ELSE {}

Seeds(files, g) ==
    {Seed(KeepDir, DirEntry), Seed(OldLink, FileEntry(<<>>))}
    \cup LinkSeeds(OldLink, files)
    \cup UNION {SeedsIfAccepted(Identity(f, g[clean_filename(Name(f))]), files)
                  : f \in {h \in files : IsMedia(h)}}

\* no two seeds at one path, and nothing below a seed that is no directory
Consistent(seeds) ==
    \A s, t \in seeds :
        s # t => /\ s.path # t.path
                 /\ IsUnder(t.path, s.path) => s.entry.kind = "dir"

SeedAt(seeds, p) == CHOOSE s \in seeds : s.path = p

\* the tree that holds the source files and the seeds
Tree(files, seeds) ==
    [p \in UNION {Prefixes(q) : q \in {SOURCE, DEST_BASE} \cup files
                                        \cup {s.path : s \in seeds}} |->
        IF p \in files THEN FileEntry(<<>>)
        ELSE IF \E s \in seeds : s.path = p THEN SeedAt(seeds, p).entry
        ELSE DirEntry]

InitWith(files, g, seeds) ==
    /\ fs = Tree(files, seeds)
    /\ guess = g
    /\ today = Days[1]
    /\ pc = "main"
    /\ queue = <<>>
    /\ main_full_path = <<>>
    /\ cleaned_name = <<>>
    /\ calls = <<>>
    /\ log = <<>>
    /\ passes = 0
    /\ ends = <<>>

CleanedNames(files) == {clean_filename(Name(f)) : f \in {h \in files : IsMedia(h)}}

Init ==
    \E files \in SubsetsUpTo(Catalogue, MaxFiles) :
        \E g \in [CleanedNames(files) -> Guesses] :
            \E seeds \in {s \in SubsetsUpTo(Seeds(files, g), MaxSeeds) : Consistent(s)} :
                InitWith(files, g, seeds)

Spec == Init /\ [][Next]_vars

(***************************************************************************)
(* One source file under every answer guessit may give for it.             *)
(***************************************************************************)
FileShow == SOURCE \o << <<"S","h">>, <<"e",".","m","k","v">> >>

FileYearOnly == SOURCE \o << <<"(","2","0","2","0",")">>, <<"e",".","m","k","v">> >>

GuessFiles == {FileA, FileEp, FileShow, FileYearOnly, SubA}

GuessTypes == {"movie", "episode", "other"}

GuessTitles == {<<>>, <<"A">>}

GuessYears == {<<>>, <<2020>>}

GuessSeasons == {PyNone, PyInt(0), PyInt(1), PyInt(12), PyList(<<2, 3>>)}

GuessEpisodes ==
    {PyNone, PyInt(0), PyInt(3), PyInt(10), PyList(<<1, 2>>), PyList(<<1, 2, 3>>),
     PyList(<<>>)}

GuessDates == {<<>>, GuessedDate}

GuessProduct ==
    {Info(type, title, year, season, episode, date) :
        type \in GuessTypes, title \in GuessTitles, year \in GuessYears,
        season \in GuessSeasons, episode \in GuessEpisodes, date \in GuessDates}

InitGuess ==
    \E f \in GuessFiles :
        \E g \in [CleanedNames({f}) -> GuessProduct] : InitWith({f}, g, {})

SpecGuess == InitGuess /\ [][Next]_vars

(***************************************************************************)
(* One source file under every name built from a few segments.             *)
(***************************************************************************)
MaxSegs == 3

Segments == { <<" ">>, <<"w","w","w",".","a">>, <<"-">>, <<"w","w","w",".","a"," ","-"," ">>, <<"b">> }

\* the strings of at most k segments
RECURSIVE NamesUpTo(_)
Longer(shorter) == shorter \cup {n \o s : n \in shorter, s \in Segments}

NamesUpTo(k) == IF k = 0 THEN {<<>>} ELSE Longer(NamesUpTo(k - 1))

NamedFiles == {SOURCE \o <<n \o <<".","m","k","v">>>> : n \in NamesUpTo(MaxSegs)}

NameGuesses == {Info("movie", <<"A">>, <<2020>>, PyNone, PyNone, <<>>)}

InitNames ==
    \E f \in NamedFiles :
        \E g \in [CleanedNames({f}) -> NameGuesses] : InitWith({f}, g, {})

SpecNames == InitNames /\ [][Next]_vars

(***************************************************************************)
(* What the properties below talk about.                                   *)
(***************************************************************************)
InDest(p) == p = DEST_BASE \/ IsUnder(p, DEST_BASE)

DestDirs(f) == {d \in DOMAIN f : InDest(d) /\ f[d].kind = "dir"}

DestLinks(f) == {p \in DOMAIN f : InDest(p) /\ f[p].kind = "link"}

Dangling(f, p) == IsSymlink(f, p) /\ ~Exists(f, p)

LogHas(message, p) == \E i \in 1..Len(log) : log[i] = <<message, p>>

\* a step of main() from its entry to the start of its loop: one whole sweep
SweepStep == pc = "main" /\ pc' = "walk"

\* a call of make_symlink found a regular file or a directory at target_path
FoundNonSymlink(c) ==
    /\ c.target_path \in DOMAIN c.before
    /\ c.before[c.target_path].kind \in {"file", "dir"}

\* a call of make_symlink found at target_path a symlink that does not
\* resolve to the source file
FoundMismatched(c) ==
    /\ IsSymlink(c.before, c.target_path)
    /\ Resolve(c.before, c.target_path) # Resolve(c.before, c.source_file)

(***************************************************************************)
(* C1: every call of make_symlink that finds a regular file or a directory *)
(* at the destination path leaves the whole file system as it found it,    *)
(* the destination path and everything below it included, and ends with    *)
(* the one line "[WARN] Not a symlink, skipping".                          *)
(***************************************************************************)
C1_NonSymlinkUntouched ==
    \A i \in 1..Len(calls) :
        FoundNonSymlink(calls[i])
            => /\ calls[i].after = calls[i].before
               /\ calls[i].said = <<"[WARN] Not a symlink, skipping">>
               /\ calls[i].ok

\* C1: make_symlink has been called on a destination path that a directory
\* occupies, and has reported the conflict
C1_Witness ==
    \E i \in 1..Len(calls) :
        /\ FoundNonSymlink(calls[i])
        /\ calls[i].before[calls[i].target_path].kind = "dir"
        /\ calls[i].said = <<"[WARN] Not a symlink, skipping">>

(***************************************************************************)
(* C2: every call of make_symlink that finds at the destination path a     *)
(* symlink not resolving to the source file, dangling or not, leaves there *)
(* a symlink that resolves to the source file, and reports the replacement *)
(* ("[WARN] Updating stale symlink", then "[LINK]").                       *)
(***************************************************************************)
C2_MismatchedReplaced ==
    \A i \in 1..Len(calls) :
        FoundMismatched(calls[i])
            => /\ IsSymlink(calls[i].after, calls[i].target_path)
               /\ Resolve(calls[i].after, calls[i].target_path)
                      = Resolve(calls[i].after, calls[i].source_file)
               /\ calls[i].said = <<"[WARN] Updating stale symlink", "[LINK]">>

(***************************************************************************)
(* C3: the destination tree the second pass leaves has the entries and the *)
(* link targets of the tree the first pass left.                           *)
(***************************************************************************)
DestShape(f) ==
    [p \in {q \in DOMAIN f : InDest(q)} |-> [kind |-> f[p].kind, target |-> f[p].target]]

C3_SecondPassFixedPoint == Len(ends) >= 2 => DestShape(ends[2]) = DestShape(ends[1])

(***************************************************************************)
(* C4: during the second pass every call of make_symlink, those that find  *)
(* a regular file or a directory in their way aside, ends with the one     *)
(* line "[SKIP] Symlink already exists" and changes nothing: no link is    *)
(* created, removed or replaced.                                           *)
(***************************************************************************)
C4_SecondPassAlreadyCorrect ==
    (passes = 1 /\ pc \in {"walk", "crashed"})
        => \A i \in 1..Len(calls) :
               ~FoundNonSymlink(calls[i])
                   => /\ calls[i].said = <<"[SKIP] Symlink already exists">>
                      /\ calls[i].after = calls[i].before

(***************************************************************************)
(* C5: no failure to create a directory or a symlink aborts the pass: the  *)
(* program never ends on an exception that escaped process_file.           *)
(***************************************************************************)
C5_PassNeverAborted == pc # "crashed"

(***************************************************************************)
(* C6: after one sweep, no directory of the destination tree remains that  *)
(* held nothing but dangling symlinks, directly or in the directories      *)
(* below it: the directory of a dangling link goes with the link, and so   *)
(* does a parent that its children's removal empties.                      *)
(***************************************************************************)
OnlyDangling(f, d) ==
    /\ \A p \in DOMAIN f : IsUnder(p, d) => (f[p].kind = "dir" \/ Dangling(f, p))
    /\ \E p \in DOMAIN f : IsUnder(p, d) /\ Dangling(f, p)

C6_Step ==
    SweepStep => \A d \in DestDirs(fs) : OnlyDangling(fs, d) => d \notin DOMAIN fs'

C6_EmptiedDirsRemoved == [][C6_Step]_vars

\* C6: a sweep has removed a dangling link, the directory that held it and
\* the parent of that directory
C6_Witness ==
    /\ pc = "walk"
    /\ \E i \in 1..Len(log) :
          /\ log[i][1] = "[CLEAN] Removing broken symlink"
          /\ Len(log[i][2]) >= 3
          /\ LogHas("[CLEAN] Removed empty directory", Parent(log[i][2]))
          /\ LogHas("[CLEAN] Removed empty directory", Parent(Parent(log[i][2])))
          /\ Parent(log[i][2]) \notin DOMAIN fs
          /\ Parent(Parent(log[i][2])) \notin DOMAIN fs

(***************************************************************************)
(* C7: a sweep removes a symlink of the destination tree if and only if    *)
(* its target does not exist: every dangling link is gone, and every link  *)
(* whose target exists is still there with the target it had.              *)
(***************************************************************************)
C7_Step ==
    SweepStep =>
        \A p \in DestLinks(fs) :
            IF Exists(fs, p) THEN p \in DOMAIN fs' /\ fs'[p] = fs[p]
            ELSE p \notin DOMAIN fs'

C7_DanglingIffRemoved == [][C7_Step]_vars

\* C7: one sweep has removed a dangling link and kept a valid one
C7_Witness ==
    /\ pc = "walk"
    /\ \E i, j \in 1..Len(log) :
          /\ log[i][1] = "[CLEAN] Removing broken symlink"
          /\ log[i][2] \notin DOMAIN fs
          /\ log[j][1] = "[OK] Symlink valid"
          /\ IsSymlink(fs, log[j][2])

(***************************************************************************)
(* C8: a file of the episode branch is rejected as incomplete exactly when *)
(* after the regex fallback the title is empty, the season is absent or    *)
(* the episode list is empty; a file that is complete in this sense, with  *)
(* season 0 too, gets its folder tvshows/<title>/Season <NN>.              *)
(***************************************************************************)
EpisodeBranch(filepath, info) ==
    /\ IsMedia(filepath)
    /\ info.type # "movie"
    /\ info.type = "episode" \/ Parent(filepath) # SOURCE

Incomplete(facts) ==
    facts.title = <<>> \/ facts.season.k = "none" \/ facts.episode_list = <<>>

SeasonFolder(facts) ==
    DEST_BASE \o <<<<"t","v","s","h","o","w","s">>, facts.title, <<"S","e","a","s","o","n"," ">> \o Pad2(facts.season.v[1])>>

C8_For(filepath, info, facts) ==
    /\ LogHas("[SKIP] Incomplete episode info", filepath) <=> Incomplete(facts)
    /\ ~Incomplete(facts) => IsDir(fs, SeasonFolder(facts))

C8_RejectedExactlyWhenIncomplete ==
    (/\ pc = "walk"
     /\ main_full_path # <<>>
     /\ EpisodeBranch(main_full_path, GuessFor(main_full_path)))
        => C8_For(main_full_path, GuessFor(main_full_path),
                  AfterFallback(main_full_path, GuessFor(main_full_path)))

(***************************************************************************)
(* C9: every sidecar written for a file carries a date, and the date is    *)
(* the guessed date when there is one, else <year>-01-01 when the year is  *)
(* known, else the current date.                                           *)
(***************************************************************************)
DateTags == {"aired", "premiered", "releasedate"}

ExpectedDate(info, now) ==
    IF info.date # <<>> THEN info.date
    ELSE IF info.year # <<>> THEN YearStr(info.year) \o <<"-","0","1","-","0","1">>
    ELSE now

DatesOf(data) == {data[i][2] : i \in {j \in 1..Len(data) : data[j][1] \in DateTags}}

Sidecars(f) ==
    {p \in DOMAIN f : InDest(p) /\ f[p].kind = "file" /\ Suffix(Name(p)) = NfoSuffix}

C9_SidecarDate ==
    (pc = "walk" /\ main_full_path # <<>>)
        => \A p \in Sidecars(fs) :
               DatesOf(fs[p].data) = {ExpectedDate(GuessFor(main_full_path), today)}

(***************************************************************************)
(* C10: clean_filename is idempotent: applied to the name it returned for  *)
(* a file, it returns that name again.                                     *)
(***************************************************************************)
C10_CleanIdempotent == clean_filename(cleaned_name) = cleaned_name

(***************************************************************************)
(* C11: a turn of main()'s loop in which process_file rejects the file     *)
(* (unsupported file type, no title, incomplete episode info or unknown    *)
(* media type) leaves the whole file system as it was.                     *)
(***************************************************************************)
RejectLines ==
    {"[SKIP] Unsupported file type", "[SKIP] No title found",
     "[SKIP] Incomplete episode info", "[SKIP] Unknown media type"}

\* the last line of the log says that filepath was rejected
RejectedLast(l, filepath) ==
    l # <<>> /\ l[Len(l)][1] \in RejectLines /\ l[Len(l)][2] = filepath

C11_Step ==
    (pc = "walk" /\ queue # <<>> /\ Len(log') = Len(log) + 1
     /\ RejectedLast(log', Head(queue)))
        => fs' = fs

C11_RejectionChangesNothing == [][C11_Step]_vars

\* C11: an episode without season and without SxxEyy in its name has been
\* rejected as incomplete, and the destination root the sweep removed has
\* not been made again
C11_Witness ==
    /\ pc = "walk"
    /\ main_full_path = FileShow
    /\ RejectedLast(log, FileShow)
    /\ log[Len(log)][1] = "[SKIP] Incomplete episode info"
    /\ guess[clean_filename(Name(FileShow))].season = PyNone
    /\ DEST_BASE \notin DOMAIN fs

(***************************************************************************)
(* C12: within a pass, every line the sweep logs (its opening line, the    *)
(* removal of a broken link, a valid link, the removal of an empty         *)
(* directory) comes before every line the provisioning of a source file    *)
(* logs, and provisioning has started only after the sweep has opened.     *)
(***************************************************************************)
SweepLines ==
    {"[INFO] Cleaning broken symlinks in", "[CLEAN] Removing broken symlink",
     "[OK] Symlink valid", "[CLEAN] Removed empty directory"}

ProvisionLines ==
    {"[NFO] Created episode NFO", "[NFO] Created movie NFO",
     "[ERROR] Could not create NFO file", "[LINK]",
     "[ERROR] Could not create symlink", "[WARN] Updating stale symlink",
     "[WARN] Not a symlink, skipping", "[SKIP] Symlink already exists"}

C12_SweepBeforeProvisioning ==
    \A j \in 1..Len(log) :
        log[j][1] \in ProvisionLines
            => /\ \E i \in 1..(j - 1) : log[i][1] = "[INFO] Cleaning broken symlinks in"
               /\ \A i \in j..Len(log) : log[i][1] \notin SweepLines

\* C12: in one pass the sweep has removed a broken link and an emptied
\* directory, and a source file has then been given its link
C12_Witness ==
    \E i, j, k \in 1..Len(log) :
        /\ log[i][1] = "[CLEAN] Removing broken symlink"
        /\ log[j][1] = "[CLEAN] Removed empty directory"
        /\ log[k][1] = "[LINK]"
        /\ i < j /\ j < k

(***************************************************************************)
(* C13: the link of an accepted episode file with title t, season s and    *)
(* episodes e1..en is made at tvshows/t/Season <ss>/t - S<ss>E<e1>-..-E<en>*)
(* followed by the extension of the source file, each number written with  *)
(* two digits; season 1 with episodes 1, 2, 3 gives S01E01-E02-E03.        *)
(***************************************************************************)
\* a number below 100 in two digits
TwoDigits(n) == <<DigitSeq[(n \div 10) + 1], DigitSeq[(n % 10) + 1]>>

\* E<e1>-E<e2>-..-E<en>
RECURSIVE HyphenJoined(_)
HyphenJoined(episodes) ==
    IF Len(episodes) = 1 THEN <<"E">> \o TwoDigits(episodes[1])
    ELSE HyphenJoined(SubSeq(episodes, 1, Len(episodes) - 1))
         \o <<"-", "E">> \o TwoDigits(episodes[Len(episodes)])

ExpectedEpisodePath(filepath, facts) ==
    DEST_BASE
    \o << <<"t","v","s","h","o","w","s">>, facts.title,
          <<"S","e","a","s","o","n"," ">> \o TwoDigits(facts.season.v[1]),
          facts.title \o <<" ","-"," ","S">> \o TwoDigits(facts.season.v[1])
              \o HyphenJoined(facts.episode_list) \o Suffix(Name(filepath)) >>

C13_For(filepath, facts) ==
    /\ calls[1].source_file = filepath
    /\ calls[1].target_path = ExpectedEpisodePath(filepath, facts)
    /\ IsSymlink(fs, calls[1].target_path)

C13_EpisodeName ==
    (/\ pc = "walk"
     /\ main_full_path # <<>>
     /\ EpisodeBranch(main_full_path, GuessFor(main_full_path))
     /\ calls # <<>>)
        => C13_For(main_full_path,
                   AfterFallback(main_full_path, GuessFor(main_full_path)))

\* C13: the episodes 1, 2 and 3 of season 1 of the show Sh have been linked
C13_Witness ==
    /\ pc = "walk"
    /\ main_full_path = FileShow
    /\ guess[clean_filename(Name(FileShow))].episode = PyList(<<1, 2, 3>>)
    /\ calls # <<>>
    /\ calls[1].target_path
           = DEST_BASE \o << <<"t","v","s","h","o","w","s">>, <<"S","h">>, <<"S","e","a","s","o","n"," ","0","1">>,
                             <<"S","h"," ","-"," ","S","0","1","E","0","1","-","E","0","2","-","E","0","3",".","m","k","v">> >>
    /\ IsSymlink(fs, calls[1].target_path)

(***************************************************************************)
(* C14: a media file whose guess has type movie is handled as a movie      *)
(* wherever it lies (rejected for want of a title, else linked under       *)
(* movies); any other file whose guess has type episode or that is no      *)
(* direct child of the source root is handled as an episode (rejected as   *)
(* incomplete, else linked under tvshows); any other file is rejected as   *)
(* unknown media type.                                                     *)
(***************************************************************************)
\* process_file has made its first link in the library named kind
LinkedUnder(kind) ==
    /\ calls # <<>>
    /\ SubSeq(calls[1].target_path, 1, Len(DEST_BASE) + 1) = DEST_BASE \o <<kind>>

\* process_file has made no link and its last line is message
RejectedWith(message, filepath) ==
    /\ calls = <<>>
    /\ RejectedLast(log, filepath)
    /\ log[Len(log)][1] = message

DirectChild(filepath) == Len(filepath) = Len(SOURCE) + 1 /\ IsUnder(filepath, SOURCE)

C14_For(filepath, info) ==
    IF info.type = "movie"
    THEN IF info.title = <<>> THEN RejectedWith("[SKIP] No title found", filepath)
         ELSE LinkedUnder(<<"m","o","v","i","e","s">>)
    ELSE IF info.type = "episode" \/ ~DirectChild(filepath)
    THEN \/ RejectedWith("[SKIP] Incomplete episode info", filepath)
         \/ LinkedUnder(<<"t","v","s","h","o","w","s">>)
    ELSE RejectedWith("[SKIP] Unknown media type", filepath)

C14_ClassificationPriority ==
    (pc = "walk" /\ main_full_path # <<>> /\ IsMedia(main_full_path))
        => C14_For(main_full_path, GuessFor(main_full_path))

\* C14: a file in a folder of the source root, guessed a movie with a
\* title, has been linked under movies
C14_Witness ==
    /\ pc = "walk"
    /\ main_full_path = FileShow
    /\ GuessFor(FileShow).type = "movie"
    /\ GuessFor(FileShow).season = PyInt(1)
    /\ LinkedUnder(<<"m","o","v","i","e","s">>)

(***************************************************************************)
(* C15: every call of make_symlink that finds at the destination path a    *)
(* symlink resolving to what the source file resolves to leaves the whole  *)
(* file system as it found it and logs nothing but "[SKIP] Symlink already *)
(* exists": it neither unlinks nor links nor makes a directory.            *)
(***************************************************************************)
FoundMatching(c) ==
    /\ IsSymlink(c.before, c.target_path)
    /\ Resolve(c.before, c.target_path) = Resolve(c.before, c.source_file)

C15_MatchingLinkUntouched ==
    \A i \in 1..Len(calls) :
        FoundMatching(calls[i])
            => /\ calls[i].after = calls[i].before
               /\ calls[i].said = <<"[SKIP] Symlink already exists">>
               /\ calls[i].ok

\* C15: in its second pass the program has met the link it made in the first
C15_Witness ==
    /\ passes = 1
    /\ pc = "walk"
    /\ \E i \in 1..Len(calls) :
          /\ FoundMatching(calls[i])
          /\ calls[i].said = <<"[SKIP] Symlink already exists">>
          /\ LinkEntry(calls[i].source_file) = calls[i].after[calls[i].target_path]

(***************************************************************************)
(* C16: the sidecar of a file is written after its main link has been      *)
(* provisioned: in the first pass over an empty destination tree, the      *)
(* first call of make_symlink for a file finds no sidecar, and no line of  *)
(* the sidecar writer comes before the first line of make_symlink.         *)
(***************************************************************************)
NfoLines ==
    {"[NFO] Created episode NFO", "[NFO] Created movie NFO",
     "[ERROR] Could not create NFO file"}

C16_LinkBeforeSidecar ==
    (passes = 0 /\ pc = "walk" /\ calls # <<>>)
        => /\ Sidecars(calls[1].before) = {}
           /\ \A i \in 1..Len(log) :
                  log[i][1] \in NfoLines
                      => \E j \in 1..(i - 1) : /\ log[j][1] \in ProvisionLines \ NfoLines
                                               /\ log[j][2] = calls[1].target_path

(***************************************************************************)
(* C17: no step of the program, in the sweep or in the provisioning,       *)
(* removes a regular file of the destination tree: what is a regular file  *)
(* there before a step is a regular file there after it.                   *)
(***************************************************************************)
DestFiles(f) == {p \in DOMAIN f : InDest(p) /\ f[p].kind = "file"}

C17_Step == \A p \in DestFiles(fs) : p \in DOMAIN fs' /\ fs'[p].kind = "file"

C17_NoRegularFileDeleted == [][C17_Step]_vars

\* C17: a pass has removed a broken link and made a link, and the regular
\* file the destination tree held from the start is still there
C17_Witness ==
    /\ pc = "walk"
    /\ OldLink \in DestFiles(fs)
    /\ \E i, j \in 1..Len(log) :
          /\ log[i][1] = "[CLEAN] Removing broken symlink"
          /\ log[j][1] = "[LINK]"

(***************************************************************************)
(* C18: when a pass ends in which nothing failed (no "[ERROR]" line, no    *)
(* escaped exception), every symlink of the destination tree resolves to   *)
(* something that exists.                                                  *)
(***************************************************************************)
ErrorLines ==
    {"[ERROR] Could not create symlink", "[ERROR] Could not create NFO file"}

C18_NoDanglingAtEndOfPass ==
    (pc = "sleep" /\ \A i \in 1..Len(log) : log[i][1] \notin ErrorLines)
        => \A p \in DestLinks(fs) : Exists(fs, p)

(***************************************************************************)
(* C19: the sweep removes the destination root itself when the root is     *)
(* left without entries: after a sweep the root is never an empty          *)
(* directory, and when the root is gone nothing below it is left.          *)
(***************************************************************************)
C19_Step ==
    (SweepStep /\ IsDir(fs, DEST_BASE))
        => /\ DEST_BASE \in DOMAIN fs' => Children(fs', DEST_BASE) # {}
           /\ DEST_BASE \notin DOMAIN fs' => \A p \in DOMAIN fs' : ~InDest(p)

C19_EmptyRootRemoved == [][C19_Step]_vars

\* C19: a sweep has removed a broken link, then every directory that this
\* left empty, and last the destination root
C19_Witness ==
    /\ pc = "walk"
    /\ DEST_BASE \notin DOMAIN fs
    /\ Len(log) >= 4
    /\ log[Len(log)] = <<"[CLEAN] Removed empty directory", DEST_BASE>>
    /\ log[3][1] = "[CLEAN] Removing broken symlink"

=============================================================================
